---- MODULE Spec2Model ----
(***************************************************************************)
(* A model of google-authenticator.c: the helper that generates a new      *)
(* secret for two-factor authentication, derives verification codes from   *)
(* it and assembles the line-oriented record ".google_authenticator".      *)
(*                                                                         *)
(* Text is modelled as sequences of one-character strings, C character     *)
(* arrays as fixed-length sequences of cells holding a character, the      *)
(* terminating NUL or an indeterminate value.  Bytes are 0..255.           *)
(***************************************************************************)
EXTENDS Integers, Sequences, FiniteSets, TLC

VARIABLES
  \* ---- main()
  pc,               \* position of the process in main()
  argv,             \* the command line after argv[0]: a sequence of tokens
  optind,           \* number of argv tokens getopt_long() has consumed
  opt,              \* the settings parsed from the command line: mode, reuse,
                    \* force, quiet, r_limit, r_time, secret_fn, label, issuer,
                    \* step_size, confirm, window_size, emergency_codes, qr_mode
  urandom,          \* the randomness source: "unopened" | "open" | "closed"
  buf,              \* uint8_t buf[60]: the secret, then 4 bytes per scratch code
  secret,           \* char secret[216]: the record under construction
  use_totp,         \* -1 until decided, then 0 | 1
  i,                \* index of the scratch-code loop
  scratch,          \* the value the last scratch-code attempt computed
  now,              \* time(NULL) as read by the confirmation loop
  test_code,        \* the value ask_code() returned
  confirmation,     \* "none" | "retry" | "confirmed" | "skipped"
  attempts,         \* lines read by the confirmation loop so far
  tmp_file,         \* the file "<secret_fn>~"
  target_file,      \* the file <secret_fn>
  target_before,    \* the file <secret_fn> as it was when the process started
  status,           \* exit status of the process, -1 while it runs
  exit_at,          \* the place where the process ended, "" while it runs
  \* ---- the last invocation of generateCode()
  key,              \* const char *key: the text handed in
  tm,               \* unsigned long tm: four 16-bit limbs, most significant first
  challenge,        \* uint8_t challenge[8] as handed to hmac_sha1()
  hash,             \* uint8_t hash[20] as delivered by hmac_sha1()
  ret,              \* << v >> for a call that returned v, << >> when there was none
  \* ---- the serializer exercised on its own
  script,           \* a secret line and the record operations to apply
  step              \* number of operations of the script applied

vars == << pc, argv, optind, opt, urandom, buf, secret, use_totp, i, scratch,
           now, test_code, confirmation, attempts, tmp_file, target_file,
           target_before, status, exit_at, key, tm, challenge, hash, ret,
           script, step >>

cmdVars  == << argv, optind, opt >>
loopVars == << now, test_code, confirmation, attempts >>
codeVars == << key, tm, challenge, hash, ret >>
fileVars == << tmp_file, target_file, target_before >>
exitVars == << status, exit_at >>
addVars  == << script, step >>

-----------------------------------------------------------------------------
(* Program constants *)

SECRET_BITS               == 160
VERIFICATION_CODE_MODULUS == 1000000
SCRATCHCODES              == 5
MAX_SCRATCHCODES          == 10
SCRATCHCODE_LENGTH        == 8
BYTES_PER_SCRATCHCODE     == 4
BITS_PER_BASE32_CHAR      == 5
SHA1_DIGEST_LENGTH        == 20
MaxDecodedSecret          == 100

\* the status of a process ended by abort(): 128 + SIGABRT
SIGABRT_STATUS == 128 + 6

-----------------------------------------------------------------------------
(* Text and bytes *)

Chars(s) == [k \in 1..Len(s) |-> SubSeq(s, k, k)]

NUL  == "NUL"          \* the terminating '\000' of a C string
JUNK == "JUNK"         \* an array cell that was never written

Min(a, b) == IF a < b THEN a ELSE b

RECURSIVE Pow(_, _)
Pow(b, e) == IF e = 0 THEN 1 ELSE b * Pow(b, e - 1)

RECURSIVE BitAnd(_, _)
BitAnd(a, b) ==
  IF a = 0 \/ b = 0 THEN 0
  ELSE (a % 2) * (b % 2) + 2 * BitAnd(a \div 2, b \div 2)

RECURSIVE BitOr(_, _)
BitOr(a, b) ==
  IF a = 0 THEN b
  ELSE IF b = 0 THEN a
  ELSE (IF a % 2 = 1 \/ b % 2 = 1 THEN 1 ELSE 0) + 2 * BitOr(a \div 2, b \div 2)

RECURSIVE Concat(_)
Concat(ss) == IF ss = << >> THEN << >> ELSE Head(ss) \o Concat(Tail(ss))

Digits == Chars("0123456789")

RECURSIVE DecDigits(_)
DecDigits(n) ==
  IF n < 10 THEN << Digits[n + 1] >>
  ELSE Append(DecDigits(n \div 10), Digits[(n % 10) + 1])

\* printf("%d")
FmtD(n) == IF n < 0 THEN << "-" >> \o DecDigits(-n) ELSE DecDigits(n)

RECURSIVE ZeroPad(_, _)
ZeroPad(s, w) == IF Len(s) >= w THEN s ELSE ZeroPad(<< "0" >> \o s, w)

\* printf("%08d"): the sign comes first, zeros fill the width
Fmt08D(n) ==
  IF n < 0 THEN << "-" >> \o ZeroPad(DecDigits(-n), SCRATCHCODE_LENGTH - 1)
  ELSE ZeroPad(DecDigits(n), SCRATCHCODE_LENGTH)

\* strlen(): the number of cells before the first NUL
StrLenFrom(a, k) ==
  LET ends == { m \in k..Len(a) : a[m] = NUL }
  IN  IF ends = { } THEN Len(a)
      ELSE (CHOOSE m \in ends : \A n \in ends : m <= n) - 1
StrLen(a) == StrLenFrom(a, 1)

\* the C string held in an array
CStr(a) == SubSeq(a, 1, StrLen(a))

\* strchr(a, c): index of the first c before the NUL, 0 for a null pointer
RECURSIVE StrChrFrom(_, _, _)
StrChrFrom(a, c, k) ==
  IF k > Len(a) \/ a[k] = NUL THEN 0
  ELSE IF a[k] = c THEN k
  ELSE StrChrFrom(a, c, k + 1)
StrChr(a, c) == StrChrFrom(a, c, 1)

-----------------------------------------------------------------------------
(* base32.h: the codec, RFC 4648 without padding *)

Base32Alphabet == Chars("ABCDEFGHIJKLMNOPQRSTUVWXYZ234567")
Base32Lower    == Chars("abcdefghijklmnopqrstuvwxyz234567")
Base32Skipped  == { " ", "\t", "\r", "\n", "-" }

\* bit k (0 = most significant bit of the first byte) of a byte sequence,
\* 0 beyond its end
PowersOfTwo == << 1, 2, 4, 8, 16, 32, 64, 128 >>

BitOf(bytes, k) ==
  IF k \div 8 + 1 > Len(bytes) THEN 0
  ELSE (bytes[k \div 8 + 1] \div PowersOfTwo[8 - (k % 8)]) % 2

Base32Digit(bytes, j) ==
  16 * BitOf(bytes, 5 * j) + 8 * BitOf(bytes, 5 * j + 1)
    + 4 * BitOf(bytes, 5 * j + 2) + 2 * BitOf(bytes, 5 * j + 3)
    + BitOf(bytes, 5 * j + 4)

\* base32_encode(): the text for a byte sequence
base32_encode(bytes) ==
  [j \in 1..((8 * Len(bytes) + BITS_PER_BASE32_CHAR - 1) \div BITS_PER_BASE32_CHAR)
     |-> Base32Alphabet[Base32Digit(bytes, j - 1) + 1]]

\* the value of a character, -1 outside the alphabet
Base32Table ==
  [ch \in { Base32Alphabet[v] : v \in 1..32 } \cup { Base32Lower[v] : v \in 1..32 } |->
     (CHOOSE v \in 1..32 : Base32Alphabet[v] = ch \/ Base32Lower[v] = ch) - 1]

Base32Value(ch) == IF ch \in DOMAIN Base32Table THEN Base32Table[ch] ELSE -1

\* the 5-bit values of the significant characters of a text
Base32Values(text) ==
  LET sig == SelectSeq(text, LAMBDA ch : ch \notin Base32Skipped)
  IN  [k \in 1..Len(sig) |-> Base32Value(sig[k])]

\* bit k (from 0) of a sequence of 5-bit values
QuintBit(vals, k) == (vals[k \div 5 + 1] \div PowersOfTwo[5 - (k % 5)]) % 2

\* base32_decode(): the number of bytes decoded, at most bufSize, with the
\* bytes, or -1 for a text holding a character outside the alphabet
base32_decode(text, bufSize) ==
  LET vals  == Base32Values(text)
      count == Min((5 * Len(vals)) \div 8, bufSize)
  IN  IF \E k \in 1..Len(vals) : vals[k] < 0
        THEN [count |-> -1, bytes |-> << >>]
        ELSE [count |-> count,
              bytes |-> [b \in 1..count |->
                 128 * QuintBit(vals, 8 * (b - 1))     + 64 * QuintBit(vals, 8 * (b - 1) + 1)
                + 32 * QuintBit(vals, 8 * (b - 1) + 2) + 16 * QuintBit(vals, 8 * (b - 1) + 3)
                +  8 * QuintBit(vals, 8 * (b - 1) + 4) +  4 * QuintBit(vals, 8 * (b - 1) + 5)
                +  2 * QuintBit(vals, 8 * (b - 1) + 6) +      QuintBit(vals, 8 * (b - 1) + 7)]]

-----------------------------------------------------------------------------
(* generateCode() *)

\* unsigned long holds 64 bits: four limbs of 16 bits, most significant first
Limbs(n) == << 0, 0, n \div 65536, n % 65536 >>

\* (uint8_t)tm
LowByte(t) == t[4] % 256

\* tm >>= 8
ShiftRight8(t) ==
  << t[1] \div 256,
     (t[1] % 256) * 256 + t[2] \div 256,
     (t[2] % 256) * 256 + t[3] \div 256,
     (t[3] % 256) * 256 + t[4] \div 256 >>

\* for (int i = 8; i--; tm >>= 8) challenge[i] = tm;
RECURSIVE FillChallenge(_, _, _)
FillChallenge(ch, t, k) ==
  IF k = 0 THEN ch
  ELSE FillChallenge([ch EXCEPT ![k] = LowByte(t)], ShiftRight8(t), k - 1)

Challenge(t) == FillChallenge([k \in 1..8 |-> 0], t, 8)

\* (strlen(key) + 7)/8*BITS_PER_BASE32_CHAR
EstimatedSecretLen(k) == ((Len(k) + 7) \div 8) * BITS_PER_BASE32_CHAR

\* checks that turn away an estimate of exactly 100 bytes
SecretRejectedAtLimit(k) ==
  LET secretLen == EstimatedSecretLen(k)
  IN  \/ secretLen <= 0
      \/ secretLen >= MaxDecodedSecret
      \/ base32_decode(k, secretLen).count < 1

\* the checks of lines 63 and 70: generateCode() returns -1 before it
\* computes any hash
SecretRejected(k) ==
  LET secretLen == EstimatedSecretLen(k)
  IN  \/ secretLen <= 0
      \/ secretLen > MaxDecodedSecret
      \/ base32_decode(k, secretLen).count < 1

\* the secret handed to hmac_sha1()
DecodedSecret(k) == base32_decode(k, EstimatedSecretLen(k)).bytes

\* an offset taken from the high nibble of the last byte
HashOffsetHighNibble(h) == h[SHA1_DIGEST_LENGTH] \div 16

\* hash[SHA1_DIGEST_LENGTH - 1] & 0xF
HashOffset(h) == BitAnd(h[SHA1_DIGEST_LENGTH], 15)

\* unsigned int truncatedHash: a 32-bit word as four bytes, most significant
\* first; "<<= 8" drops the top byte, "|=" acts on the low byte
ShiftLeft8(w) == << w[2], w[3], w[4], 0 >>
OrByte(w, b)  == << w[1], w[2], w[3], BitOr(w[4], b) >>

RECURSIVE TruncLoop(_, _, _, _)
TruncLoop(w, h, offset, k) ==
  IF k = 4 THEN w
  ELSE TruncLoop(OrByte(ShiftLeft8(w), h[offset + k + 1]), h, offset, k + 1)

\* truncatedHash &= 0x7FFFFFFF, as a number
Mask31(w) == BitAnd(w[1], 127) * 16777216 + w[2] * 65536 + w[3] * 256 + w[4]

\* lines 82-91
TruncatedHash(h) ==
  Mask31(TruncLoop(<< 0, 0, 0, 0 >>, h, HashOffset(h), 0))
    % VERIFICATION_CODE_MODULUS

\* the value generateCode(key, tm) returns when hmac_sha1() delivers h
generateCode(k, h) ==
  IF SecretRejected(k) THEN -1 ELSE TruncatedHash(h)

-----------------------------------------------------------------------------
(* main(): the constant strings and the record buffer *)

hotp      == Chars("\" HOTP_COUNTER 1\n")
totp      == Chars("\" TOTP_AUTH\n")
disallow  == Chars("\" DISALLOW_REUSE\n")
stepOpt   == Chars("\" STEP_SIZE 30\n")
window    == Chars("\" WINDOW_SIZE 17\n")
ratelimit == Chars("\" RATE_LIMIT 3 30\n")

\* sizeof of a string constant counts its NUL
SizeOf(s) == Len(s) + 1

\* sizeof(buf)
BufSize == SECRET_BITS \div 8 + MAX_SCRATCHCODES * BYTES_PER_SCRATCHCODE

\* a buffer sized without the room for the scratch codes
SecretSizeWithoutScratchCodes ==
  (SECRET_BITS + BITS_PER_BASE32_CHAR - 1) \div BITS_PER_BASE32_CHAR
    + 1
    + SizeOf(hotp)
    + SizeOf(disallow)
    + SizeOf(stepOpt)
    + SizeOf(window)
    + SizeOf(ratelimit) + 5

\* sizeof(secret)
SecretSize ==
  (SECRET_BITS + BITS_PER_BASE32_CHAR - 1) \div BITS_PER_BASE32_CHAR
    + 1
    + SizeOf(hotp)
    + SizeOf(disallow)
    + SizeOf(stepOpt)
    + SizeOf(window)
    + SizeOf(ratelimit) + 5
    + SCRATCHCODE_LENGTH * (MAX_SCRATCHCODES + 1)
    + 1

\* memmove(a + dst, a + src, n), cells counted from 1
MemMove(a, dst, src, n) ==
  SubSeq(a, 1, dst - 1) \o SubSeq(a, src, src + n - 1) \o SubSeq(a, dst + n, Len(a))

\* memcpy(a + dst, text, strlen(text))
MemCpy(a, dst, text) ==
  SubSeq(a, 1, dst - 1) \o text \o SubSeq(a, dst + Len(text), Len(a))

\* an array holding a C string: the text, its NUL, the rest as it was
PutString(a, dst, text) ==
  SubSeq(a, 1, dst - 1) \o text \o << NUL >> \o SubSeq(a, dst + Len(text) + 1, Len(a))

\* strcat(a, text) writes strlen(text) + 1 cells behind the string: it stays
\* inside the array when this holds
StrCatFits(a, text) == StrLen(a) + Len(text) + 1 <= Len(a)
StrCat(a, text) == PutString(a, StrLen(a) + 1, text)

\* an snprintf() given a size of 1: it writes the NUL and nothing else
SnprintfNothing(a, text) == PutString(a, StrLen(a) + 1, << >>)

\* snprintf(strrchr(a, '\000'), sizeof(a) - strlen(a), "%s", text): at most
\* size - 1 characters of the text and a NUL
SnprintfAtEnd(a, text) ==
  LET size == Len(a) - StrLen(a)
  IN  PutString(a, StrLen(a) + 1, SubSeq(text, 1, Min(Len(text), size - 1)))

\* assertions that let the text reach the capacity
AddOptionAssertsOffByOne(b, nbuf, option) ==
  /\ StrLen(b) + Len(option) <= nbuf
  /\ StrChr(b, "\n") # 0

\* the two assertions of addOption()
AddOptionAsserts(b, nbuf, option) ==
  /\ StrLen(b) + Len(option) < nbuf
  /\ StrChr(b, "\n") # 0

\* an addOption() that appends behind the scratch codes
addOptionAtEnd(b, nbuf, option) == StrCat(b, option)

\* an addOption() without its memmove(): the option overwrites what follows
\* the secret line
addOptionWithoutMove(b, nbuf, option) ==
  MemCpy(b, StrChr(b, "\n") + 1, option)

\* an addOption() that inserts behind the line that follows the secret line
addOptionBehindNextLine(b, nbuf, option) ==
  LET first == StrChr(b, "\n")
      scratchCodes == first + StrChr(SubSeq(b, first + 1, Len(b)), "\n") + 1
      moved == MemMove(b, scratchCodes + Len(option), scratchCodes,
                       (StrLen(b) - (scratchCodes - 1)) + 1)
  IN  MemCpy(moved, scratchCodes, option)

\* addOption(buf, nbuf, option), its assertions holding
addOption(b, nbuf, option) ==
  LET scratchCodes == StrChr(b, "\n") + 1
      moved == MemMove(b, scratchCodes + Len(option), scratchCodes,
                       (StrLen(b) - (scratchCodes - 1)) + 1)
  IN  MemCpy(moved, scratchCodes, option)

-----------------------------------------------------------------------------
(* Inputs *)

RECURSIVE Rep(_, _)
Rep(c, n) == IF n = 0 THEN << >> ELSE << c >> \o Rep(c, n - 1)

\* secrets as delivered by the randomness source
SecretBytes ==
  { [k \in 1..(SECRET_BITS \div 8) |-> 0],
    [k \in 1..(SECRET_BITS \div 8) |-> 255],
    [k \in 1..(SECRET_BITS \div 8) |-> (13 * k + 7) % 256] }

\* texts handed to generateCode()
Keys ==
  { base32_encode(s) : s \in SecretBytes }
    \cup { Chars("GEZDGNBVGY3TQOJQGEZDGNBVGY3TQOJQ"), Chars("mzxw6ytboi"),
           Chars("MZXW 6YTB-OI\n"), Chars("AA"), Chars("A"), << >>,
           Chars("    "), Chars("AB!D"), Chars("MZXW6==="),
           Rep("A", 160), Rep("A", 161), Rep("7", 153) }

\* counters, as limbs
Counters ==
  { << 0, 0, 0, 0 >>, << 0, 0, 0, 1 >>, << 0, 0, 0, 256 >>,
    << 258, 772, 1286, 1800 >>, << 65535, 65535, 65535, 65535 >>,
    << 32768, 0, 0, 0 >> }

\* digests hmac_sha1() may deliver: every offset, with the high nibble of the
\* last byte clear, mixed and set, over several fillings of the other bytes
DigestFill(v, k) ==
  CASE v = 1 -> (17 * k + 3) % 256
    [] v = 2 -> 255 - ((17 * k + 3) % 256)
    [] v = 3 -> 255
    [] OTHER -> 0

Digest(o, hi, v) ==
  [k \in 1..SHA1_DIGEST_LENGTH |->
     IF k = SHA1_DIGEST_LENGTH THEN 16 * hi + o ELSE DigestFill(v, k)]

DigestFills == 3

\* the confirmation loop counts its passes up to this number
MaxAttempts == 3

Digests == { Digest(o, hi, v) : o \in 0..15, hi \in {0, 15}, v \in 1..DigestFills }

-----------------------------------------------------------------------------
(* The state of main() before its first statement *)

NoFile == [exists |-> FALSE, data |-> << >>]

Locals ==
  /\ opt = [mode |-> "ASK_MODE", reuse |-> "ASK_REUSE", force |-> 0, quiet |-> 0,
            r_limit |-> 0, r_time |-> 0, secret_fn |-> "NULL", label |-> "NULL",
            issuer |-> "NULL", step_size |-> 0, confirm |-> 1, window_size |-> 0,
            emergency_codes |-> -1, qr_mode |-> "QR_UNSET"]
  /\ optind = 0
  /\ urandom = "unopened"
  /\ buf = [k \in 1..BufSize |-> -1]
  /\ use_totp = -1 /\ i = 0 /\ scratch = 0
  /\ now = 0 /\ test_code = 0 /\ confirmation = "none" /\ attempts = 0
  /\ tmp_file = NoFile
  /\ status = -1 /\ exit_at = ""

NoCode ==
  /\ key = << >> /\ tm = << 0, 0, 0, 0 >> /\ challenge = << >>
  /\ hash = << >> /\ ret = << >>

NoScript == script = [secretLine |-> << >>, ops |-> << >>] /\ step = 0

-----------------------------------------------------------------------------
(* generateCode() on its own *)

\* a call of generateCode(k, t): the challenge is filled first, the checks
\* of the secret come before hmac_sha1()
\* hmac_sha1() is a black box: it delivers one of the given digests
GenerateCodeCall(k, t, digests) ==
  /\ key' = k
  /\ tm' = t
  /\ challenge' = Challenge(t)
  /\ IF SecretRejected(k)
       THEN hash' = << >> /\ ret' = << -1 >>
       ELSE \E h \in digests : hash' = h /\ ret' = << generateCode(k, h) >>

InitCode ==
  /\ pc = "generateCode"
  /\ Locals
  /\ argv = << >>
  /\ secret = [k \in 1..SecretSize |-> JUNK]
  /\ target_file = NoFile /\ target_before = NoFile
  /\ key \in Keys /\ tm \in Counters
  /\ challenge = << >> /\ hash = << >> /\ ret = << >>
  /\ NoScript

CallGenerateCode ==
  /\ pc = "generateCode"
  /\ GenerateCodeCall(key, tm, Digests)
  /\ pc' = "returned"
  /\ UNCHANGED << cmdVars, loopVars, fileVars, exitVars, addVars, urandom, buf,
                  secret, use_totp, i, scratch >>

NextCode == CallGenerateCode

SpecCode == InitCode /\ [][NextCode]_vars

-----------------------------------------------------------------------------
(* The serializer on its own: a secret line, two options, a scratch line *)

OptionTexts ==
  { hotp, totp, disallow, stepOpt, window, ratelimit,
    Chars("\" RATE_LIMIT 10 600\n"), << >>, Chars("\n"), Chars("x\ny"),
    Chars("12345678\n") }

ScratchValues == { 10000000, 47483647, 99999999 }

Scripts ==
  { [secretLine |-> base32_encode(s),
     ops |-> << [op |-> "addOption", arg |-> a],
                [op |-> "addOption", arg |-> b],
                [op |-> "appendScratch", arg |-> Fmt08D(c) \o << "\n" >>] >>]
      : s \in SecretBytes, a \in OptionTexts, b \in OptionTexts, c \in ScratchValues }

InitAdd ==
  /\ pc = "serializer"
  /\ Locals
  /\ argv = << >>
  /\ target_file = NoFile /\ target_before = NoFile
  /\ NoCode
  /\ script \in Scripts
  /\ step = 0
  /\ secret = StrCat(PutString([k \in 1..SecretSize |-> JUNK], 1, script.secretLine),
                     << "\n" >>)

ApplyAddOption ==
  /\ pc = "serializer"
  /\ step < Len(script.ops)
  /\ script.ops[step + 1].op = "addOption"
  /\ IF AddOptionAsserts(secret, SecretSize, script.ops[step + 1].arg)
       THEN /\ secret' = addOption(secret, SecretSize, script.ops[step + 1].arg)
            /\ step' = step + 1
            /\ UNCHANGED << pc, exitVars >>
       ELSE /\ pc' = "exit" /\ status' = SIGABRT_STATUS /\ exit_at' = "assert"
            /\ UNCHANGED << secret, step >>
  /\ UNCHANGED << cmdVars, loopVars, fileVars, codeVars, script, urandom, buf,
                  use_totp, i, scratch >>

ApplyAppendScratch ==
  /\ pc = "serializer"
  /\ step < Len(script.ops)
  /\ script.ops[step + 1].op = "appendScratch"
  /\ secret' = SnprintfAtEnd(secret, script.ops[step + 1].arg)
  /\ step' = step + 1
  /\ UNCHANGED << pc, cmdVars, loopVars, fileVars, exitVars, codeVars, script,
                  urandom, buf, use_totp, i, scratch >>

NextAdd == ApplyAddOption \/ ApplyAppendScratch

SpecAdd == InitAdd /\ [][NextAdd]_vars

-----------------------------------------------------------------------------
(* main(): the command line *)

\* strtol(text, &endptr, 10) for texts of at most nine digits: the value, the
\* number of characters consumed (0: endptr == text) and the rest (*endptr)
RECURSIVE DigitRun(_, _)
DigitRun(text, k) ==
  IF k <= Len(text) /\ text[k] \in { Digits[d] : d \in 1..10 }
    THEN DigitRun(text, k + 1) ELSE k - 1

DigitValue(ch) == (CHOOSE d \in 1..10 : Digits[d] = ch) - 1

RECURSIVE DecimalValue(_, _, _)
DecimalValue(text, from, to) ==
  IF to < from THEN 0
  ELSE 10 * DecimalValue(text, from, to - 1) + DigitValue(text[to])

strtol(text) ==
  LET signed == Len(text) > 0 /\ text[1] \in { "-", "+" }
      first  == IF signed THEN 2 ELSE 1
      last   == DigitRun(text, first)
      value  == DecimalValue(text, first, last)
  IN  IF last < first
        THEN [value |-> 0, consumed |-> 0, rest |-> text]
        ELSE [value |-> IF signed /\ text[1] = "-" THEN -value ELSE value,
              consumed |-> last,
              rest |-> SubSeq(text, last + 1, Len(text))]

\* errno || endptr == optarg || *endptr || l < lo || l > hi
BadNumber(text, lo, hi) ==
  LET l == strtol(text)
  IN  l.consumed = 0 \/ l.rest # << >> \/ l.value < lo \/ l.value > hi

UpperCase ==
  [ch \in { Base32Lower[v] : v \in 1..26 } |->
     Base32Alphabet[CHOOSE v \in 1..26 : Base32Lower[v] = ch]]

\* strcasecmp(a, b) == 0
SameIgnoringCase(a, b) ==
  LET up(t) == [k \in 1..Len(t) |-> IF t[k] \in DOMAIN UpperCase THEN UpperCase[t[k]] ELSE t[k]]
  IN  up(a) = up(b)

\* the qr_mode an argument of -Q selects, "" for an invalid one
QrModeOf(text) ==
  CASE SameIgnoringCase(text, Chars("none")) -> "QR_NONE"
    [] SameIgnoringCase(text, Chars("ANSI_INVERSE"))
         \/ SameIgnoringCase(text, Chars("ANSI-INVERSE")) -> "QR_ANSI_INVERSE"
    [] SameIgnoringCase(text, Chars("ANSI_GREY"))
         \/ SameIgnoringCase(text, Chars("ANSI-GREY")) -> "QR_ANSI_GREY"
    [] SameIgnoringCase(text, Chars("ANSI")) -> "QR_ANSI"
    [] SameIgnoringCase(text, Chars("UTF8_INVERSE"))
         \/ SameIgnoringCase(text, Chars("UTF8-INVERSE")) -> "QR_UTF8_INVERSE"
    [] SameIgnoringCase(text, Chars("UTF8_GREY"))
         \/ SameIgnoringCase(text, Chars("UTF8-GREY")) -> "QR_UTF8_GREY"
    [] SameIgnoringCase(text, Chars("UTF8")) -> "QR_UTF8"
    [] OTHER -> ""

\* the outcome of one pass of the option loop: the settings, and the exit
\* status where the pass ends the process (-1: the loop goes on)
Continue(o)    == [opt |-> o, exit |-> -1, at |-> ""]
Stop(o, st, m) == [opt |-> o, exit |-> st, at |-> m]

\* the body of the option loop for the option getopt_long() returned; name is
\* the short option (or "version"), "?" for what getopt_long() rejects
HandleOption(o, name, arg) ==
  CASE name = "?" -> Stop(o, 1, "Failed to parse command line")
    [] name = "h" -> Stop(o, 0, "usage")
    [] name = "version" -> Stop(o, 0, "version")
    [] name = "c" ->
         IF o.mode # "ASK_MODE"
           THEN Stop(o, 1, "Duplicate -c and/or -t option detected")
         ELSE IF o.reuse # "ASK_REUSE"
           THEN Stop(o, 1, "Reuse of tokens is not a meaningful parameter in counter-based mode")
         ELSE Continue([o EXCEPT !.mode = "HOTP_MODE"])
    [] name = "C" -> Continue([o EXCEPT !.confirm = 0])
    [] name = "t" ->
         IF o.mode # "ASK_MODE"
           THEN Stop(o, 1, "Duplicate -c and/or -t option detected")
         ELSE Continue([o EXCEPT !.mode = "TOTP_MODE"])
    [] name = "d" ->
         IF o.reuse # "ASK_REUSE"
           THEN Stop(o, 1, "Duplicate -d and/or -D option detected")
         ELSE IF o.mode = "HOTP_MODE"
           THEN Stop(o, 1, "Reuse of tokens is not a meaningful parameter in counter-based mode")
         ELSE Continue([o EXCEPT !.reuse = "DISALLOW_REUSE"])
    [] name = "D" ->
         IF o.reuse # "ASK_REUSE"
           THEN Stop(o, 1, "Duplicate -d and/or -D option detected")
         ELSE IF o.mode = "HOTP_MODE"
           THEN Stop(o, 1, "Reuse of tokens is not a meaningful parameter in counter-based mode")
         ELSE Continue([o EXCEPT !.reuse = "ALLOW_REUSE"])
    [] name = "f" ->
         IF o.force # 0 THEN Stop(o, 1, "Duplicate -f option detected")
         ELSE Continue([o EXCEPT !.force = 1])
    [] name = "l" ->
         IF o.label # "NULL" THEN Stop(o, 1, "Duplicate -l option detected")
         ELSE Continue([o EXCEPT !.label = "given"])
    [] name = "i" ->
         IF o.issuer # "NULL" THEN Stop(o, 1, "Duplicate -i option detected")
         ELSE Continue([o EXCEPT !.issuer = "given"])
    [] name = "q" ->
         IF o.quiet # 0 THEN Stop(o, 1, "Duplicate -q option detected")
         ELSE Continue([o EXCEPT !.quiet = 1])
    [] name = "Q" ->
         IF o.qr_mode # "QR_UNSET" THEN Stop(o, 1, "Duplicate -Q option detected")
         ELSE IF QrModeOf(arg) = "" THEN Stop(o, 1, "Invalid qr-mode")
         ELSE Continue([o EXCEPT !.qr_mode = QrModeOf(arg)])
    [] name = "r" ->
         IF o.r_limit > 0 THEN Stop(o, 1, "Duplicate -r option detected")
         ELSE IF o.r_limit < 0 THEN Stop(o, 1, "-u is mutually exclusive with -r")
         ELSE IF BadNumber(arg, 1, 10)
           THEN Stop(o, 1, "-r requires an argument in the range 1..10")
         ELSE Continue([o EXCEPT !.r_limit = strtol(arg).value])
    [] name = "R" ->
         IF o.r_time > 0 THEN Stop(o, 1, "Duplicate -R option detected")
         ELSE IF o.r_time < 0 THEN Stop(o, 1, "-u is mutually exclusive with -R")
         ELSE IF BadNumber(arg, 15, 600)
           THEN Stop(o, 1, "-R requires an argument in the range 15..600")
         ELSE Continue([o EXCEPT !.r_time = strtol(arg).value])
    [] name = "u" ->
         IF o.r_limit > 0 \/ o.r_time > 0
           THEN Stop(o, 1, "-u is mutually exclusive with -r/-R")
         ELSE IF o.r_limit < 0 THEN Stop(o, 1, "Duplicate -u option detected")
         ELSE Continue([o EXCEPT !.r_limit = -1, !.r_time = -1])
    [] name = "s" ->
         IF o.secret_fn # "NULL" THEN Stop(o, 1, "Duplicate -s option detected")
         ELSE IF arg = << >> THEN Stop(o, 1, "-s must be followed by a filename")
         ELSE Continue([o EXCEPT !.secret_fn = "given"])
    [] name = "S" ->
         IF o.step_size # 0 THEN Stop(o, 1, "Duplicate -S option detected")
         ELSE IF BadNumber(arg, 1, 60)
           THEN Stop(o, 1, "-S requires an argument in the range 1..60")
         ELSE Continue([o EXCEPT !.step_size = strtol(arg).value])
    [] name = "w" ->
         IF o.window_size # 0 THEN Stop(o, 1, "Duplicate -w/-W option detected")
         ELSE IF BadNumber(arg, 1, 21)
           THEN Stop(o, 1, "-w requires an argument in the range 1..21")
         ELSE Continue([o EXCEPT !.window_size = strtol(arg).value])
    [] name = "W" ->
         IF o.window_size # 0 THEN Stop(o, 1, "Duplicate -w/-W option detected")
         ELSE Continue([o EXCEPT !.window_size = -1])
    [] name = "e" ->
         IF o.emergency_codes >= 0 THEN Stop(o, 1, "Duplicate -e option detected")
         ELSE IF BadNumber(arg, 0, MAX_SCRATCHCODES)
           THEN Stop(o, 1, "-e requires an argument in the range 0..10")
         ELSE Continue([o EXCEPT !.emergency_codes = strtol(arg).value])
    [] OTHER -> Stop(o, 1, "Error")

\* lines 730-766, behind the option loop
CheckArguments(o, strayArgument) ==
  LET q == [o EXCEPT !.qr_mode = IF o.qr_mode = "QR_UNSET" THEN "QR_ANSI" ELSE o.qr_mode]
  IN  IF strayArgument THEN Stop(q, 0, "usage")
      ELSE IF q.reuse # "ASK_REUSE" /\ q.mode # "TOTP_MODE"
        THEN Stop(q, 1, "Must select time-based mode, when using -d or -D")
      ELSE IF (q.r_time # 0 /\ q.r_limit = 0) \/ (q.r_time = 0 /\ q.r_limit # 0)
        THEN Stop(q, 1, "Must set -r when setting -R, and vice versa")
      ELSE Continue([q EXCEPT
             !.emergency_codes = IF q.emergency_codes < 0 THEN SCRATCHCODES
                                 ELSE q.emergency_codes,
             !.label  = IF q.label = "NULL" THEN "default" ELSE q.label,
             !.issuer = IF q.issuer = "NULL" THEN "default" ELSE q.issuer])

\* a token of the command line
Option(name)         == [kind |-> "option", name |-> name, arg |-> << >>]
OptionArg(name, arg) == [kind |-> "option", name |-> name, arg |-> Chars(arg)]
Unknown              == [kind |-> "unknown", name |-> "?", arg |-> << >>]
Stray                == [kind |-> "word", name |-> "", arg |-> << >>]

\* getopt_long() with an optstring starting with "+": -1 at the end of the
\* command line and at the first word that is no option
AtEndOfOptions == optind = Len(argv) \/ argv[optind + 1].kind = "word"

\* an exit that reports success whatever happened
TerminatedWithSuccess(st, at) == pc' = "exit" /\ status' = 0 /\ exit_at' = at

\* exit() and a return from main() with a status
Terminated(st, at) == pc' = "exit" /\ status' = st /\ exit_at' = at

\* one pass of the for (;;) of lines 471-729
GetOptLong ==
  /\ pc = "getopt"
  /\ IF AtEndOfOptions
       THEN /\ pc' = "arguments"
            /\ UNCHANGED << optind, opt, exitVars >>
       ELSE LET token == argv[optind + 1]
                out   == HandleOption(opt, token.name, token.arg)
            IN  /\ optind' = optind + 1
                /\ opt' = out.opt
                /\ IF out.exit >= 0 THEN Terminated(out.exit, out.at)
                   ELSE UNCHANGED << pc, exitVars >>
  /\ UNCHANGED << argv, loopVars, fileVars, codeVars, addVars, urandom, buf,
                  secret, use_totp, i, scratch >>

\* lines 730-766
CheckCommandLine ==
  /\ pc = "arguments"
  /\ LET out == CheckArguments(opt, optind # Len(argv))
     IN  /\ opt' = out.opt
         /\ IF out.exit >= 0 THEN Terminated(out.exit, out.at)
            ELSE pc' = "open" /\ UNCHANGED exitVars
  /\ UNCHANGED << argv, optind, loopVars, fileVars, codeVars, addVars, urandom,
                  buf, secret, use_totp, i, scratch >>

-----------------------------------------------------------------------------
(* main(): inputs of a run *)

\* what fgets() delivers at a prompt: a line, or end of file
EndOfFile   == [eof |-> TRUE, line |-> << >>]
Line(text)  == [eof |-> FALSE, line |-> Chars(text)]

YesNoInputs == { EndOfFile, Line("y\n"), Line("No\n"), Line("\n") }

\* maybe(): the switch on line[0]
maybe(in) ==
  IF in.eof THEN "exit"
  ELSE IF in.line[1] \in { "Y", "y" } THEN "yes"
  ELSE IF in.line[1] \in { "N", "n" } THEN "no"
  ELSE "again"

\* 4-byte draws for a scratch code
DrawZero  == << 0, 0, 0, 0 >>            \* 0
DrawBelow == << 0, 152, 150, 127 >>      \* 9999999
DrawMin   == << 0, 152, 150, 128 >>      \* 10000000
DrawMid   == << 73, 150, 2, 210 >>       \* 1234567890
DrawMax   == << 5, 245, 224, 255 >>      \* 99999999
DrawWrap  == << 5, 245, 225, 0 >>        \* 100000000
DrawTop   == << 128, 0, 0, 0 >>          \* 2^31
DrawHigh  == << 255, 255, 255, 255 >>    \* 2^32 - 1

\* what a full read of sizeof(buf) bytes may deliver
RandomReads ==
  { [k \in 1..(SECRET_BITS \div 8) |-> 0]
      \o Concat(<< DrawMin, DrawMax, DrawMid, DrawMin, DrawMax,
                   DrawMid, DrawMin, DrawMax, DrawMid, DrawMax >>),
    [k \in 1..(SECRET_BITS \div 8) |-> 255]
      \o Concat(<< DrawZero, DrawTop, DrawHigh, DrawMid, DrawMid,
                   DrawMid, DrawMid, DrawMid, DrawMid, DrawMid >>),
    [k \in 1..(SECRET_BITS \div 8) |-> (13 * k + 7) % 256]
      \o Concat(<< DrawMax, DrawMax, DrawMax, DrawMax, DrawMax,
                   DrawMax, DrawMax, DrawMax, DrawMax, DrawBelow >>) }

\* what a read of BYTES_PER_SCRATCHCODE bytes may deliver
ScratchDraws == { DrawZero, DrawWrap, DrawMin, DrawMax }

\* digests hmac_sha1() delivers in a run of main()
MainDigests == { Digest(15, 15, 1), Digest(0, 0, 2) }

\* time(NULL)
Times == { 59, 1700000000 }

-----------------------------------------------------------------------------
(* main(): from the randomness source to the record *)

NoCodeNext ==
  /\ key' = << >> /\ tm' = << 0, 0, 0, 0 >> /\ challenge' = << >>
  /\ hash' = << >> /\ ret' = << >>

\* lines 768-772
OpenUrandom ==
  /\ pc = "open"
  /\ \E opened \in BOOLEAN :
       IF opened
         THEN urandom' = "open" /\ pc' = "read" /\ UNCHANGED exitVars
         ELSE Terminated(1, "Failed to open /dev/urandom") /\ UNCHANGED urandom
  /\ UNCHANGED << cmdVars, loopVars, fileVars, codeVars, addVars, buf, secret,
                  use_totp, i, scratch >>

\* lines 773-779: a short read ends the run, a full one fills buf, and the
\* secret is encoded into the record buffer
ReadUrandom ==
  /\ pc = "read"
  /\ \E bytes \in RandomReads \cup { << >> } :
       IF Len(bytes) # BufSize
         THEN /\ Terminated(1, "Failed to read from /dev/urandom")
              /\ UNCHANGED << buf, secret >>
         ELSE /\ buf' = bytes
              /\ secret' = PutString(secret, 1,
                                     base32_encode(SubSeq(bytes, 1, SECRET_BITS \div 8)))
              /\ pc' = "mode"
              /\ UNCHANGED exitVars
  /\ UNCHANGED << cmdVars, loopVars, fileVars, codeVars, addVars, urandom,
                  use_totp, i, scratch >>

\* lines 780-785
ChooseMode ==
  /\ pc = "mode"
  /\ IF opt.mode = "ASK_MODE"
       THEN \E in \in YesNoInputs :
              CASE maybe(in) = "exit" ->
                     Terminated(1, "maybe") /\ UNCHANGED use_totp
                [] maybe(in) = "again" ->
                     UNCHANGED << pc, use_totp, exitVars >>
                [] OTHER ->
                     /\ use_totp' = IF maybe(in) = "yes" THEN 1 ELSE 0
                     /\ pc' = "enroll"
                     /\ UNCHANGED exitVars
       ELSE /\ use_totp' = IF opt.mode = "TOTP_MODE" THEN 1 ELSE 0
            /\ pc' = "enroll"
            /\ UNCHANGED exitVars
  /\ UNCHANGED << cmdVars, loopVars, fileVars, codeVars, addVars, urandom, buf,
                  secret, i, scratch >>

\* lines 786-789 and 807-811: the enrolment information (getURL() may end
\* the process), then either the confirmation loop or the code for counter 1
DisplayEnrollInfo ==
  /\ pc = "enroll"
  /\ IF opt.quiet # 0
       THEN pc' = "newline" /\ UNCHANGED << codeVars, exitVars >>
       ELSE \E urlBuilt \in BOOLEAN :
              IF opt.qr_mode # "QR_NONE" /\ ~urlBuilt
                THEN Terminated(1, "getURL") /\ UNCHANGED codeVars
              ELSE IF opt.confirm # 0 /\ use_totp # 0
                THEN pc' = "confirm" /\ UNCHANGED << codeVars, exitVars >>
              ELSE /\ GenerateCodeCall(CStr(secret), Limbs(1), MainDigests)
                   /\ pc' = "newline"
                   /\ UNCHANGED exitVars
  /\ UNCHANGED << cmdVars, loopVars, fileVars, addVars, urandom, buf, secret,
                  use_totp, i, scratch >>

\* the low 32 bits of the number text[k..to] spells, as two 16-bit limbs
RECURSIVE Low32(_, _, _, _)
Low32(text, k, to, w) ==
  IF k > to THEN w
  ELSE Low32(text, k + 1, to,
             << (10 * w[1] + (10 * w[2] + DigitValue(text[k])) \div 65536) % 65536,
                (10 * w[2] + DigitValue(text[k])) % 65536 >>)

\* the int with these 32 bits
IntOfLimbs(w) ==
  IF w[1] >= 32768 THEN (w[1] - 65536) * 65536 + w[2] ELSE w[1] * 65536 + w[2]

\* line 360: "return strtol(line, NULL, 10)" from a function returning int.
\* The long (64 bits, for lines of up to 18 digits no saturation) is cut to
\* its low 32 bits; a line without a number gives 0.
ask_code(line) ==
  LET signed == Len(line) > 0 /\ line[1] \in { "-", "+" }
      first  == IF signed THEN 2 ELSE 1
      last   == DigitRun(line, first)
      low    == IntOfLimbs(Low32(line, first, last, << 0, 0 >>))
  IN  IF last < first THEN 0
      ELSE IF signed /\ line[1] = "-" /\ low # -2147483647 - 1 THEN -low
      ELSE low

\* what the user may enter when the app shows the code for digest h
CodeInputs(h) ==
  { EndOfFile, Line("-1\n"), Line("abc\n"), Line("4294967295\n"),
    [eof |-> FALSE, line |-> ZeroPad(DecDigits(TruncatedHash(h)), 6) \o << "\n" >>],
    [eof |-> FALSE,
     line |-> DecDigits((TruncatedHash(h) + 1) % VERIFICATION_CODE_MODULUS) \o << "\n" >>] }

\* a time step that ignores the step size of the command line
TimeStepOfThirty(t, step_size) == t \div 30

\* time(NULL)/(step_size ? step_size : 30)
TimeStep(t, step_size) == t \div (IF step_size # 0 THEN step_size ELSE 30)

\* one pass of the for (;;) of lines 792-806
ConfirmCode ==
  /\ pc = "confirm"
  /\ \E t \in Times, h \in MainDigests :
       \E in \in CodeInputs(h) :
         IF in.eof
           THEN /\ Terminated(1, "ask_code")
                /\ UNCHANGED << loopVars, codeVars >>
           ELSE /\ test_code' = ask_code(in.line)
                /\ attempts' = Min(attempts + 1, MaxAttempts)
                /\ IF test_code' < 0
                     THEN /\ confirmation' = "skipped"
                          /\ pc' = "newline"
                          /\ NoCodeNext
                          /\ UNCHANGED now
                     ELSE /\ now' = t
                          /\ GenerateCodeCall(CStr(secret),
                                              Limbs(TimeStep(t, opt.step_size)), {h})
                          /\ IF << test_code' >> = ret'
                               THEN confirmation' = "confirmed" /\ pc' = "newline"
                               ELSE confirmation' = "retry" /\ pc' = "confirm"
                /\ UNCHANGED exitVars
  /\ UNCHANGED << cmdVars, fileVars, addVars, urandom, buf, secret, use_totp, i,
                  scratch >>

\* lines 812-816: label and issuer are freed, the block of the confirmation
\* loop is left, and the secret line gets its newline
TerminateSecretLine ==
  /\ pc = "newline"
  /\ opt' = [opt EXCEPT !.label = "freed", !.issuer = "freed"]
  /\ now' = 0 /\ test_code' = 0 /\ confirmation' = "none" /\ attempts' = 0
  /\ NoCodeNext
  /\ IF StrCatFits(secret, << "\n" >>)
       THEN secret' = StrCat(secret, << "\n" >>) /\ pc' = "marker"
       ELSE pc' = "undefined" /\ UNCHANGED secret
  /\ UNCHANGED << argv, optind, fileVars, exitVars, addVars, urandom, buf,
                  use_totp, i, scratch >>

\* lines 817-821
\* both markers, as without the else of line 819
BothModeMarkers(totpMode) == IF totpMode # 0 THEN totp \o hotp ELSE hotp

ModeMarker(totpMode) == IF totpMode # 0 THEN totp ELSE hotp

AppendModeMarker ==
  /\ pc = "marker"
  /\ IF StrCatFits(secret, ModeMarker(use_totp))
       THEN secret' = StrCat(secret, ModeMarker(use_totp)) /\ pc' = "scratch"
       ELSE pc' = "undefined" /\ UNCHANGED secret
  /\ UNCHANGED << cmdVars, loopVars, fileVars, exitVars, codeVars, addVars,
                  urandom, buf, use_totp, i, scratch >>

\* modulus of lines 828-831
ScratchModulus == Pow(10, SCRATCHCODE_LENGTH)

\* lines 824-832 for the 4 bytes of a slot.  While the bytes are below 2^31
\* the int arithmetic is exact.  From 2^31 on, "256*scratch + byte" overflows
\* an int: the build either wraps (the mask then leaves the low 31 bits), or
\* relies on scratch being non-negative and drops the mask, and the remainder
\* of the wrapped, negative value is not positive.
ScratchOutcomes(b) ==
  IF b[1] < 128
    THEN { (b[1] * 16777216 + b[2] * 65536 + b[3] * 256 + b[4]) % ScratchModulus }
    ELSE LET wrapped == (b[1] - 256) * 16777216 + b[2] * 65536 + b[3] * 256 + b[4]
             masked  == (b[1] - 128) * 16777216 + b[2] * 65536 + b[3] * 256 + b[4]
         IN  { masked % ScratchModulus,
               IF wrapped % ScratchModulus = 0 THEN 0
               ELSE (wrapped % ScratchModulus) - ScratchModulus }

\* a test that lets short codes pass
ScratchRejectedBelowZero(s) == s < 0

\* scratch < modulus/10
ScratchRejected(s) == s < ScratchModulus \div 10

SlotStart(slot) == SECRET_BITS \div 8 + BYTES_PER_SCRATCHCODE * slot

SlotBytes(b, slot) == SubSeq(b, SlotStart(slot) + 1, SlotStart(slot) + BYTES_PER_SCRATCHCODE)

\* a read into the start of buf, as without the offset of the slot
ReadSlotAtStart(b, slot, bytes) ==
  bytes \o SubSeq(b, BYTES_PER_SCRATCHCODE + 1, Len(b))

\* read(fd, buf + (SECRET_BITS/8 + BYTES_PER_SCRATCHCODE*i), BYTES_PER_SCRATCHCODE)
ReadSlot(b, slot, bytes) ==
  SubSeq(b, 1, SlotStart(slot)) \o bytes
    \o SubSeq(b, SlotStart(slot) + BYTES_PER_SCRATCHCODE + 1, Len(b))

\* one pass from new_scratch_code: (lines 823-846): a rejected value makes the
\* process read 4 new bytes for the slot and try again, an accepted one is
\* appended to the record
ScratchCode ==
  /\ pc = "scratch"
  /\ i < opt.emergency_codes
  /\ \E s \in ScratchOutcomes(SlotBytes(buf, i)) :
       /\ scratch' = s
       /\ IF ScratchRejected(s)
            THEN \E bytes \in ScratchDraws \cup { << >> } :
                   IF Len(bytes) # BYTES_PER_SCRATCHCODE
                     THEN /\ Terminated(1, "Failed to read from /dev/urandom")
                          /\ UNCHANGED << buf, secret, i >>
                     ELSE /\ buf' = ReadSlot(buf, i, bytes)
                          /\ UNCHANGED << pc, secret, i, exitVars >>
            ELSE /\ secret' = SnprintfAtEnd(secret, Fmt08D(s) \o << "\n" >>)
                 /\ i' = i + 1
                 /\ UNCHANGED << pc, buf, exitVars >>
  /\ UNCHANGED << cmdVars, loopVars, fileVars, codeVars, addVars, urandom,
                  use_totp >>

\* lines 822 and 848: the loop is left and the randomness source closed
CloseUrandom ==
  /\ pc = "scratch"
  /\ i >= opt.emergency_codes
  /\ urandom' = "closed"
  /\ scratch' = 0
  /\ pc' = "home"
  /\ UNCHANGED << cmdVars, loopVars, fileVars, exitVars, codeVars, addVars, buf,
                  secret, use_totp, i >>

\* lines 849-861: getenv("HOME") is unset, relative or absolute
DetermineSecretFile ==
  /\ pc = "home"
  /\ IF opt.secret_fn = "NULL"
       THEN \E home \in { "unset", "relative", "absolute" } :
              IF home # "absolute"
                THEN Terminated(1, "Cannot determine home directory") /\ UNCHANGED opt
                ELSE /\ opt' = [opt EXCEPT !.secret_fn = "home"]
                     /\ pc' = "update"
                     /\ UNCHANGED exitVars
       ELSE pc' = "update" /\ UNCHANGED << opt, exitVars >>
  /\ UNCHANGED << argv, optind, loopVars, fileVars, codeVars, addVars, urandom,
                  buf, secret, use_totp, i, scratch >>

\* an update prompt put behind the open() of the temporary file
AskUpdateCreatesFirst ==
  /\ pc = "update"
  /\ tmp_file' = [exists |-> TRUE, data |-> << >>]
  /\ IF opt.force = 0
       THEN \E in \in YesNoInputs :
              CASE maybe(in) = "exit"  -> Terminated(1, "maybe")
                [] maybe(in) = "again" -> UNCHANGED << pc, exitVars >>
                [] maybe(in) = "no"    -> Terminated(0, "declined")
                [] OTHER -> /\ pc' = IF use_totp # 0 THEN "reuse" ELSE "window"
                            /\ UNCHANGED exitVars
       ELSE /\ pc' = IF use_totp # 0 THEN "reuse" ELSE "window"
            /\ UNCHANGED exitVars
  /\ UNCHANGED << cmdVars, loopVars, target_file, target_before, codeVars,
                  addVars, urandom, buf, secret, use_totp, i, scratch >>

\* lines 862-880
AskUpdate ==
  /\ pc = "update"
  /\ IF opt.force = 0
       THEN \E in \in YesNoInputs :
              CASE maybe(in) = "exit"  -> Terminated(1, "maybe")
                [] maybe(in) = "again" -> UNCHANGED << pc, exitVars >>
                [] maybe(in) = "no"    -> Terminated(0, "declined")
                [] OTHER -> /\ pc' = IF use_totp # 0 THEN "reuse" ELSE "window"
                            /\ UNCHANGED exitVars
       ELSE /\ pc' = IF use_totp # 0 THEN "reuse" ELSE "window"
            /\ UNCHANGED exitVars
  /\ UNCHANGED << cmdVars, loopVars, fileVars, codeVars, addVars, urandom, buf,
                  secret, use_totp, i, scratch >>

\* a call of addOption(secret, sizeof(secret), option) in main(): a failed
\* assertion aborts the process
AddOption(option, next) ==
  IF AddOptionAsserts(secret, SecretSize, option)
    THEN /\ secret' = addOption(secret, SecretSize, option)
         /\ pc' = next
         /\ UNCHANGED exitVars
    ELSE /\ Terminated(SIGABRT_STATUS, "assert")
         /\ UNCHANGED secret

\* a call of maybeAddOption(msg, secret, sizeof(secret), option) in main()
MaybeAddOption(option, next) ==
  \E in \in YesNoInputs :
    CASE maybe(in) = "exit"  -> Terminated(1, "maybe") /\ UNCHANGED secret
      [] maybe(in) = "again" -> UNCHANGED << pc, secret, exitVars >>
      [] maybe(in) = "no"    -> pc' = next /\ UNCHANGED << secret, exitVars >>
      [] OTHER               -> AddOption(option, next)

\* lines 881-889, time-based only
AddReuseOption ==
  /\ pc = "reuse"
  /\ CASE opt.reuse = "ASK_REUSE"      -> MaybeAddOption(disallow, "step")
       [] opt.reuse = "DISALLOW_REUSE" -> AddOption(disallow, "step")
       [] OTHER -> pc' = "step" /\ UNCHANGED << secret, exitVars >>
  /\ UNCHANGED << cmdVars, loopVars, fileVars, codeVars, addVars, urandom, buf,
                  use_totp, i, scratch >>

\* lines 890-894, time-based only
StepSizeOption(step_size) == Chars("\" STEP_SIZE ") \o FmtD(step_size) \o << "\n" >>

AddStepSizeOption ==
  /\ pc = "step"
  /\ IF opt.step_size # 0
       THEN AddOption(StepSizeOption(opt.step_size), "window")
       ELSE pc' = "window" /\ UNCHANGED << secret, exitVars >>
  /\ UNCHANGED << cmdVars, loopVars, fileVars, codeVars, addVars, urandom, buf,
                  use_totp, i, scratch >>

\* lines 895-917 and 920-932
WindowSizeOption(window_size, totpMode) ==
  Chars("\" WINDOW_SIZE ")
    \o FmtD(IF window_size > 0 THEN window_size ELSE IF totpMode # 0 THEN 3 ELSE 1)
    \o << "\n" >>

AddWindowSizeOption ==
  /\ pc = "window"
  /\ IF opt.window_size = 0
       THEN MaybeAddOption(window, "rate")
       ELSE AddOption(WindowSizeOption(opt.window_size, use_totp), "rate")
  /\ UNCHANGED << cmdVars, loopVars, fileVars, codeVars, addVars, urandom, buf,
                  use_totp, i, scratch >>

\* lines 934-945
RateLimitOption(r_limit, r_time) ==
  Chars("\" RATE_LIMIT ") \o FmtD(r_limit) \o << " " >> \o FmtD(r_time) \o << "\n" >>

AddRateLimitOption ==
  /\ pc = "rate"
  /\ IF opt.r_limit = 0 /\ opt.r_time = 0
       THEN MaybeAddOption(ratelimit, "create")
     ELSE IF opt.r_limit > 0 /\ opt.r_time > 0
       THEN AddOption(RateLimitOption(opt.r_limit, opt.r_time), "create")
     ELSE pc' = "create" /\ UNCHANGED << secret, exitVars >>
  /\ UNCHANGED << cmdVars, loopVars, fileVars, codeVars, addVars, urandom, buf,
                  use_totp, i, scratch >>

-----------------------------------------------------------------------------
(* main(): the record is written *)

File(text) == [exists |-> TRUE, data |-> text]

\* unlink(path)
Unlink(file) == NoFile

\* lines 947-952: open() with O_EXCL|O_CREAT
CreateTemporary ==
  /\ pc = "create"
  /\ \E created \in BOOLEAN :
       IF created
         THEN tmp_file' = File(<< >>) /\ pc' = "write" /\ UNCHANGED exitVars
         ELSE Terminated(1, "Failed to create") /\ UNCHANGED tmp_file
  /\ UNCHANGED << cmdVars, loopVars, target_file, target_before, codeVars,
                  addVars, urandom, buf, secret, use_totp, i, scratch >>

\* line 953 and, where write() fails or writes less, lines 955-957
WriteTemporary ==
  /\ pc = "write"
  /\ \E written \in { 0, StrLen(secret) \div 2, StrLen(secret) } :
       /\ tmp_file' = File(SubSeq(secret, 1, written))
       /\ IF written = StrLen(secret)
            THEN pc' = "rename" /\ UNCHANGED << target_file, exitVars >>
            ELSE /\ target_file' = Unlink(target_file)
                 /\ Terminated(1, "Failed to write new secret")
  /\ UNCHANGED << cmdVars, loopVars, target_before, codeVars, addVars, urandom,
                  buf, secret, use_totp, i, scratch >>

\* line 954 and, where rename() fails, lines 955-957; else lines 960-964
RenameTemporary ==
  /\ pc = "rename"
  /\ \E renamed \in BOOLEAN :
       IF renamed
         THEN /\ target_file' = tmp_file
              /\ tmp_file' = NoFile
              /\ Terminated(0, "done")
         ELSE /\ target_file' = Unlink(target_file)
              /\ Terminated(1, "Failed to write new secret")
              /\ UNCHANGED tmp_file
  /\ UNCHANGED << cmdVars, loopVars, target_before, codeVars, addVars, urandom,
                  buf, secret, use_totp, i, scratch >>

-----------------------------------------------------------------------------
(* A run of the program *)

\* a record written by an earlier run
OldRecord ==
  File(Rep("B", 32) \o << "\n" >> \o totp \o Chars("12345678\n"))

CommandLines ==
  { << >>,
    << Option("t") >>,
    << Option("c") >>,
    << Option("t"), Option("d") >>,
    << Option("d"), Option("t"), Option("f") >>,
    << Option("t"), Option("D"), Option("C") >>,
    << Option("q"), Option("f"), OptionArg("e", "0") >>,
    << Option("t"), Option("d"), OptionArg("S", "60"), OptionArg("w", "21"),
       OptionArg("r", "10"), OptionArg("R", "600"), OptionArg("e", "10") >>,
    << OptionArg("S", "1"), OptionArg("e", "10"), OptionArg("r", "10"),
       OptionArg("R", "600"), Option("q") >>,
    << Option("c"), Option("W"), Option("u"), OptionArg("e", "1"), Option("f"),
       Option("q"), OptionArg("s", "file") >>,
    << Option("t"), Option("W"), Option("u"), OptionArg("Q", "none"),
       OptionArg("l", "me"), OptionArg("i", "host"), OptionArg("S", "7") >>,
    << Option("c"), OptionArg("w", "1"), OptionArg("r", "1"), OptionArg("R", "15"),
       OptionArg("e", "10"), Option("q") >>,
    << Option("c"), Option("t") >>,
    << Option("c"), Option("d") >>,
    << Option("d"), Option("c") >>,
    << Option("d") >>,
    << Option("D"), Option("d") >>,
    << OptionArg("r", "3") >>,
    << Option("u"), OptionArg("R", "30") >>,
    << OptionArg("S", "61") >>,
    << OptionArg("w", "0") >>,
    << OptionArg("e", "11") >>,
    << OptionArg("R", "600x") >>,
    << OptionArg("Q", "colour") >>,
    << Option("h") >>,
    << Option("version") >>,
    << Unknown >>,
    << Option("t"), Stray >> }

Init ==
  /\ pc = "getopt"
  /\ Locals
  /\ argv \in CommandLines
  /\ secret = [k \in 1..SecretSize |-> JUNK]
  /\ target_file \in { NoFile, OldRecord }
  /\ target_before = target_file
  /\ NoCode
  /\ NoScript

Next ==
  \/ GetOptLong
  \/ CheckCommandLine
  \/ OpenUrandom
  \/ ReadUrandom
  \/ ChooseMode
  \/ DisplayEnrollInfo
  \/ ConfirmCode
  \/ TerminateSecretLine
  \/ AppendModeMarker
  \/ ScratchCode
  \/ CloseUrandom
  \/ DetermineSecretFile
  \/ AskUpdate
  \/ AddReuseOption
  \/ AddStepSizeOption
  \/ AddWindowSizeOption
  \/ AddRateLimitOption
  \/ CreateTemporary
  \/ WriteTemporary
  \/ RenameTemporary

Spec == Init /\ [][Next]_vars

-----------------------------------------------------------------------------
(* C1 *)

\* the counter as 8 bytes, most significant byte first
BigEndian8(t) ==
  [k \in 1..8 |-> IF k % 2 = 1 THEN t[(k + 1) \div 2] \div 256 ELSE t[k \div 2] % 256]

\* the dynamic truncation of RFC 4226, section 5.3
ReferenceHotp(h) ==
  LET offset == h[20] % 16
  IN  ((h[offset + 1] % 128) * 16777216 + h[offset + 2] * 65536
         + h[offset + 3] * 256 + h[offset + 4]) % 1000000

\* C1: for every decodable secret and every counter, generateCode hands the
\* counter to the keyed hash as 8 bytes, most significant byte first, and
\* returns the reference HOTP dynamic truncation of the 20-byte digest, a
\* value in 0..999999.
C1_DynamicTruncation ==
  (pc = "returned" /\ ~SecretRejected(key)) =>
    /\ challenge = BigEndian8(tm)
    /\ Len(hash) = 20
    /\ ret = << ReferenceHotp(hash) >>
    /\ ret[1] \in 0..999999

\* a code was derived from a digest whose selected word has its top bit set,
\* at the last offset, for a counter that fills all 8 bytes
C1_Witness ==
  /\ pc = "returned" /\ ret # << >> /\ ret # << -1 >>
  /\ Len(hash) = 20 /\ hash[20] % 16 = 15 /\ hash[16] >= 128
  /\ tm = << 258, 772, 1286, 1800 >>
  /\ challenge = << 1, 2, 3, 4, 5, 6, 7, 8 >>

-----------------------------------------------------------------------------
(* C2 *)

\* C2: from a record holding only the secret line, addOption of A, then
\* addOption of B, then a scratch line S appended at the end give exactly
\* secretLine + B + A + S.
C2_InsertionOrder ==
  (pc = "serializer" /\ step = 3) =>
    CStr(secret) = script.secretLine \o << "\n" >> \o script.ops[2].arg
                     \o script.ops[1].arg \o script.ops[3].arg

\* two different non-empty options and a scratch line have been applied
C2_Witness ==
  /\ pc = "serializer" /\ step = 3
  /\ script.ops[1].arg = disallow /\ script.ops[2].arg = Chars("\" RATE_LIMIT 10 600\n")
  /\ StrLen(secret) = 33 + 17 + 20 + 9

-----------------------------------------------------------------------------
(* The record as a reader sees it *)

\* the lines of a text, each with its newline; an unterminated rest is a line
RECURSIVE SplitLines(_)
SplitLines(text) ==
  IF text = << >> THEN << >>
  ELSE LET nl  == StrChr(text, "\n")
           cut == IF nl = 0 THEN Len(text) ELSE nl
       IN  << SubSeq(text, 1, cut) >> \o SplitLines(SubSeq(text, cut + 1, Len(text)))

IsDigit(ch) == ch \in { "0", "1", "2", "3", "4", "5", "6", "7", "8", "9" }

IsOptionLine(l) ==
  Len(l) >= 3 /\ l[1] = "\"" /\ l[2] = " " /\ l[Len(l)] = "\n"

IsScratchLine(l) ==
  Len(l) = 9 /\ l[9] = "\n" /\ \A k \in 1..8 : IsDigit(l[k])

IsPrefix(p, l) == Len(p) <= Len(l) /\ SubSeq(l, 1, Len(p)) = p

\* a from its line k on is b from its line m on with some lines left out
RECURSIVE IsSubsequenceFrom(_, _, _, _)
IsSubsequenceFrom(a, k, b, m) ==
  IF k > Len(a) THEN TRUE
  ELSE IF m > Len(b) THEN FALSE
  ELSE IF a[k] = b[m] THEN IsSubsequenceFrom(a, k + 1, b, m + 1)
  ELSE IsSubsequenceFrom(a, k, b, m + 1)
IsSubsequence(a, b) == IsSubsequenceFrom(a, 1, b, 1)

Record == CStr(secret)

\* the lines behind the secret line
BodyOf(rec) == Tail(SplitLines(rec))
Body == BodyOf(Record)

OptionLines  == SelectSeq(Body, IsOptionLine)
ScratchLines == SelectSeq(Body, LAMBDA l : ~IsOptionLine(l))

\* main() has passed line 816: the secret line has its newline
SecretLineTerminated == opt.label = "freed"

\* the record is complete and on its way to the file
HandedToWriter ==
  pc \in { "create", "write", "rename" }
    \/ (pc = "exit" /\ exit_at \in { "done", "Failed to create", "Failed to write new secret" })

-----------------------------------------------------------------------------
(* C3 *)

\* the secret line, then option lines only, then scratch-code lines only
RecordShape(rec, body) ==
  /\ Len(rec) >= 33
  /\ SubSeq(rec, 1, 33) = base32_encode(SubSeq(buf, 1, 20)) \o << "\n" >>
  /\ \A k \in 1..32 : rec[k] \in { Base32Alphabet[v] : v \in 1..32 }
  /\ \A k \in 1..Len(body) : IsOptionLine(body[k]) \/ IsScratchLine(body[k])
  /\ \A k \in 1..(Len(body) - 1) : IsScratchLine(body[k]) => IsScratchLine(body[k + 1])

\* no step alters the secret line or takes away a line
RecordKept(old, new) ==
  /\ SubSeq(new, 1, 33) = SubSeq(old, 1, 33)
  /\ \A before \in { SplitLines(old) } : \A after \in { SplitLines(new) } :
       IsSubsequence(before, after)

\* C3: once the secret line has its newline, after every append of the mode
\* marker or of a scratch line and after every insert of an option, the record
\* is the unchanged 32-character base-32 secret line, then a block of option
\* lines, then a block of 8-digit scratch-code lines; no step alters the
\* secret line or a line written before.
C3_RecordLayout ==
  /\ [](SecretLineTerminated =>
          \A rec \in { Record } : \A body \in { BodyOf(rec) } : RecordShape(rec, body))
  /\ [][ (SecretLineTerminated /\ secret' # secret) =>
           \A old \in { Record } : \A new \in { Record' } : RecordKept(old, new) ]_vars

\* options were inserted into a record that already held the mode marker and
\* ten scratch codes
C3_Witness ==
  /\ pc = "create"
  /\ Len(OptionLines) = 5
  /\ Len(ScratchLines) = 10

-----------------------------------------------------------------------------
(* C4 *)

\* the length of what the statement main() is at may add to the record
PendingContent ==
  CASE pc = "newline" -> 1
    [] pc = "marker"  -> Len(ModeMarker(use_totp))
    [] pc = "scratch" /\ i < opt.emergency_codes -> SCRATCHCODE_LENGTH + 1
    [] pc = "reuse" /\ opt.reuse \in { "ASK_REUSE", "DISALLOW_REUSE" } -> Len(disallow)
    [] pc = "step" /\ opt.step_size # 0 -> Len(StepSizeOption(opt.step_size))
    [] pc = "window" /\ opt.window_size = 0 -> Len(window)
    [] pc = "window" /\ opt.window_size # 0 ->
         Len(WindowSizeOption(opt.window_size, use_totp))
    [] pc = "rate" /\ opt.r_limit = 0 /\ opt.r_time = 0 -> Len(ratelimit)
    [] pc = "rate" /\ opt.r_limit > 0 /\ opt.r_time > 0 ->
         Len(RateLimitOption(opt.r_limit, opt.r_time))
    [] OTHER -> 0

\* C4: in every legal run, at every write into the record buffer the length
\* of the text plus the length of the new content is strictly less than
\* sizeof(secret); no assertion of addOption fails, nothing is written past
\* the buffer, and the longest legal record fits.
C4_WritesFit ==
  /\ pc # "undefined"
  /\ exit_at # "assert"
  /\ pc \in { "newline", "marker", "scratch", "reuse", "step", "window", "rate" } =>
       StrLen(secret) + PendingContent < SecretSize
  /\ HandedToWriter => StrLen(secret) < SecretSize

\* the longest legal record: time-based, DISALLOW_REUSE, STEP_SIZE 60,
\* WINDOW_SIZE 21, RATE_LIMIT 10 600 and ten scratch codes
C4_Witness ==
  /\ pc = "create"
  /\ StrLen(secret) = 33 + 12 + 17 + 15 + 17 + 20 + 90

-----------------------------------------------------------------------------
(* C5 *)

\* the number a scratch line shows
LineValue(l) == DecimalValue(l, 1, 8)

\* C5: every scratch code in the record is a number in 10000000..99999999,
\* written as exactly 8 digits without a leading zero, whatever bytes the
\* randomness source delivered.
C5_ScratchCodeRange ==
  SecretLineTerminated =>
    \A lines \in { ScratchLines } : \A k \in 1..Len(lines) :
      /\ IsScratchLine(lines[k])
      /\ lines[k][1] # "0"
      /\ LineValue(lines[k]) \in 10000000..99999999

\* ten codes were written in a run whose first slots were rejected
C5_Witness ==
  /\ pc = "home"
  /\ buf[1] = 255
  /\ SlotBytes(buf, 0) = DrawMin
  /\ SlotBytes(buf, 1) = DrawMax
  /\ Len(ScratchLines) = 10

-----------------------------------------------------------------------------
(* C6 *)

-----------------------------------------------------------------------------
(* C7 *)

FatalExits ==
  { "Failed to open /dev/urandom", "Failed to read from /dev/urandom",
    "ask_code", "maybe", "assert", "Cannot determine home directory" }

\* C7: every fatal condition (the randomness source cannot be opened or read
\* in full, end of input at a prompt, a failed assertion, no home directory)
\* ends the process with a non-zero status, and no record file, temporary or
\* final, has been created or modified.
C7_FatalExits ==
  (pc = "exit" /\ exit_at \in FatalExits) =>
    /\ status > 0
    /\ tmp_file = NoFile
    /\ target_file = target_before

\* end of input at the last option prompt, options already inserted, an
\* earlier record in place
C7_Witness ==
  /\ pc = "exit" /\ exit_at = "maybe"
  /\ target_before = OldRecord
  /\ Len(OptionLines) = 3

-----------------------------------------------------------------------------
(* C8 *)

\* C8: a failure at any step of persisting (creating the temporary file,
\* writing it, renaming it) leaves the record at the target path as it was.
C8_TargetSurvivesFailure ==
  (pc = "exit" /\ exit_at \in { "Failed to create", "Failed to write new secret" }) =>
    target_file = target_before

-----------------------------------------------------------------------------
(* C9 *)

IsModeMarker(l) ==
  IsPrefix(Chars("\" HOTP_COUNTER"), l) \/ IsPrefix(Chars("\" TOTP_AUTH"), l)

\* C9: the record handed to the writer has exactly one mode-marker line,
\* HOTP_COUNTER or TOTP_AUTH, and a DISALLOW_REUSE line only beside TOTP_AUTH.
C9_OneModeMarker ==
  HandedToWriter =>
    \A body \in { Body } :
      /\ Len(SelectSeq(body, IsModeMarker)) = 1
      /\ (\E k \in 1..Len(body) : IsPrefix(Chars("\" DISALLOW_REUSE"), body[k])) =>
           (\E k \in 1..Len(body) : IsPrefix(Chars("\" TOTP_AUTH"), body[k]))

\* a time-based record with DISALLOW_REUSE reaches the writer
C9_Witness ==
  /\ pc = "create"
  /\ \E body \in { Body } :
       /\ \E k \in 1..Len(body) : body[k] = disallow
       /\ \E k \in 1..Len(body) : body[k] = totp

-----------------------------------------------------------------------------
(* C10 *)

\* the randomness source delivers bytes that make an acceptable code
GoodDraw ==
  /\ ScratchCode
  /\ buf' # buf
  /\ \A s \in ScratchOutcomes(SlotBytes(buf', i)) : ~ScratchRejected(s)

\* the process goes on through the loop and out of it while it can, and the
\* randomness source does not withhold an acceptable draw for ever
FairSpec ==
  Spec /\ WF_vars(ScratchCode) /\ WF_vars(CloseUrandom) /\ SF_vars(GoodDraw)

\* the code the bytes of a slot stand for
SlotCode(slot) ==
  (BitAnd(SlotBytes(buf, slot)[1], 127) * 16777216 + SlotBytes(buf, slot)[2] * 65536
     + SlotBytes(buf, slot)[3] * 256 + SlotBytes(buf, slot)[4]) % 100000000

ScratchLinesInOrder(n) ==
  \A lines \in { ScratchLines } :
    /\ Len(lines) = n
    /\ \A k \in 1..n : lines[k] = Fmt08D(SlotCode(k - 1)) \o << "\n" >>

\* C10: the scratch-code loop holds one line per filled slot, in the order of
\* the slots; a rejected draw adds none; behind the loop the record has
\* exactly the requested number of lines, 0..10, 5 by default; and the loop
\* is left once the randomness source delivers an acceptable draw per slot.
C10_ScratchCodeCount ==
  /\ [](pc = "scratch" => (i <= opt.emergency_codes /\ ScratchLinesInOrder(i)))
  /\ [](pc \in { "home", "update", "reuse", "step", "window", "rate", "create" } =>
          (opt.emergency_codes \in 0..10 /\ ScratchLinesInOrder(opt.emergency_codes)))
  /\ [](pc = "home" /\ argv = << >> => opt.emergency_codes = 5)
  /\ (pc = "scratch" ~> pc # "scratch")

\* ten codes, the last of them after a rejected draw
C10_Witness ==
  /\ pc = "home"
  /\ opt.emergency_codes = 10
  /\ buf[1] = 20
  /\ SlotBytes(buf, 9) # DrawBelow
  /\ Len(ScratchLines) = 10

-----------------------------------------------------------------------------
(* C11 *)

\* the places where main() reads from the randomness source
ReadsUrandom == pc = "read" \/ (pc = "scratch" /\ i < opt.emergency_codes)

\* C11: the randomness source is not open before line 768, is open wherever
\* the process reads from it, is closed when the process has left the
\* scratch-code loop, and whenever the process ends after having opened it,
\* early or not, the process has closed it.
C11_UrandomReleased ==
  /\ pc \in { "getopt", "arguments", "open" } => urandom = "unopened"
  /\ ReadsUrandom => urandom = "open"
  /\ pc \in { "home", "update", "reuse", "step", "window", "rate", "create",
              "write", "rename" } => urandom = "closed"
  /\ (pc = "exit" /\ urandom # "unopened") => urandom = "closed"

-----------------------------------------------------------------------------
(* The three ways main() adds to the record, on a buffer that is nearly full *)

\* the buffers tried leave up to this many cells free
MaxFree == 24

\* lines 817-821 on their own: strcat() checks nothing, and behind the array
\* its writes are undefined
ApplyAppendMarker ==
  /\ pc = "serializer"
  /\ step < Len(script.ops)
  /\ script.ops[step + 1].op = "appendMarker"
  /\ IF StrCatFits(secret, script.ops[step + 1].arg)
       THEN /\ secret' = StrCat(secret, script.ops[step + 1].arg)
            /\ step' = step + 1
            /\ UNCHANGED pc
       ELSE /\ pc' = "undefined"
            /\ UNCHANGED << secret, step >>
  /\ UNCHANGED << cmdVars, loopVars, fileVars, exitVars, codeVars, script,
                  urandom, buf, use_totp, i, scratch >>

CapacityOps ==
  { [op |-> "addOption", arg |-> disallow],
    [op |-> "addOption", arg |-> Chars("\" RATE_LIMIT 10 600\n")],
    [op |-> "appendScratch", arg |-> Chars("12345678\n")],
    [op |-> "appendMarker", arg |-> totp],
    [op |-> "appendMarker", arg |-> hotp] }

\* a record of "fill" characters, then two operations
CapacityScripts ==
  { [secretLine |-> Rep("A", 32), fill |-> n, ops |-> << a, b >>]
      : n \in (SecretSize - MaxFree)..(SecretSize - 1),
        a \in CapacityOps, b \in CapacityOps }

InitCapacity ==
  /\ pc = "serializer"
  /\ Locals
  /\ argv = << >>
  /\ target_file = NoFile /\ target_before = NoFile
  /\ NoCode
  /\ script \in CapacityScripts
  /\ step = 0
  /\ secret = PutString([k \in 1..SecretSize |-> JUNK], 1,
                        script.secretLine \o << "\n" >>
                          \o [k \in 1..(script.fill - 34) |-> "7"] \o << "\n" >>)

NextCapacity == ApplyAddOption \/ ApplyAppendScratch \/ ApplyAppendMarker

SpecCapacity == InitCapacity /\ [][NextCapacity]_vars

-----------------------------------------------------------------------------
(* C12 *)

\* the length of the text when k operations of the script have been applied,
\* a scratch line being cut to the room there is
RECURSIVE LenAfter(_, _)
LenAfter(sc, k) ==
  IF k = 0 THEN sc.fill
  ELSE IF sc.ops[k].op = "appendScratch"
    THEN Min(LenAfter(sc, k - 1) + Len(sc.ops[k].arg), SecretSize - 1)
    ELSE LenAfter(sc, k - 1) + Len(sc.ops[k].arg)

\* operation k of the script finds room for all of its content
HasRoom(sc, k) == LenAfter(sc, k - 1) + Len(sc.ops[k].arg) < SecretSize

-----------------------------------------------------------------------------
(* C13 *)

\* the cells of buf outside the 4 bytes of a slot
OutsideSlot(slot) ==
  { k \in 1..BufSize : k <= SlotStart(slot) \/ k > SlotStart(slot) + BYTES_PER_SCRATCHCODE }

\* a pass of the loop that rejected its value and read again
Retry == pc = "scratch" /\ pc' = "scratch" /\ i' = i

\* a pass of the loop that accepted its value
Accept == pc = "scratch" /\ i' = i + 1

\* C13: a retry for slot i changes nothing but the 4 bytes of slot i (the
\* 20 secret bytes, every other slot and the record stay as they are) and
\* carries no value over; the value accepted for a slot, and written, is the
\* code of the 4 bytes the slot holds then, the last ones read into it.
C13_RetryFrame ==
  [][ /\ Retry =>
           /\ ScratchRejected(scratch')
           /\ Len(buf') = BufSize
           /\ \A k \in OutsideSlot(i) : buf'[k] = buf[k]
           /\ SlotBytes(buf', i) \in ScratchDraws
           /\ secret' = secret
      /\ Accept =>
           /\ buf' = buf
           /\ scratch' = SlotCode(i)
           /\ ~ScratchRejected(scratch')
           /\ secret' = SnprintfAtEnd(secret, Fmt08D(SlotCode(i)) \o << "\n" >>)
      /\ (pc = "scratch" /\ buf' # buf) => Retry ]_vars

\* slot 9 came as 9999999, was read again as 10000000, and that was accepted
C13_Witness ==
  /\ pc = "scratch"
  /\ i = 10
  /\ buf[1] = 20
  /\ SlotBytes(buf, 9) = DrawMin
  /\ SlotBytes(buf, 8) = DrawMax
  /\ scratch = 10000000

-----------------------------------------------------------------------------
(* C14 *)

\* the text is empty, or longer than 160 characters, or decodes to no byte
NoUsableSecret(text) ==
  \/ Len(text) = 0
  \/ Len(text) > 160
  \/ base32_decode(text, 5 * ((Len(text) + 7) \div 8)).count < 1

\* C14: generateCode() returns -1, with no hash computed, exactly when the
\* text is empty or longer than 160 characters (an estimate of 0 or of more
\* than 100 bytes) or decodes to fewer than 1 byte; every other call returns
\* a code in 0..999999, so -1 is never a code.
C14_RejectedSecrets ==
  pc = "returned" =>
    /\ NoUsableSecret(key) <=> ret = << -1 >>
    /\ NoUsableSecret(key) => hash = << >>
    /\ ~NoUsableSecret(key) => (Len(hash) = SHA1_DIGEST_LENGTH /\ ret[1] \in 0..999999)

\* 161 characters are turned away; the estimate is 105 bytes
C14_Witness ==
  /\ pc = "returned"
  /\ Len(key) = 161
  /\ ret = << -1 >>
  /\ hash = << >>

-----------------------------------------------------------------------------
(* C15 *)

\* the place of an option line in the order RATE_LIMIT, WINDOW_SIZE,
\* STEP_SIZE, DISALLOW_REUSE, mode marker; 0 for any other line
OptionRank(l) ==
  CASE IsPrefix(Chars("\" RATE_LIMIT "), l)    -> 1
    [] IsPrefix(Chars("\" WINDOW_SIZE "), l)   -> 2
    [] IsPrefix(Chars("\" STEP_SIZE "), l)     -> 3
    [] IsPrefix(Chars("\" DISALLOW_REUSE"), l) -> 4
    [] IsModeMarker(l)                         -> 5
    [] OTHER                                   -> 0

\* the option lines lead the body in rising rank and end in the mode marker,
\* which the first scratch line or the end of the record follows
OptionsInOrder(body, n) ==
  /\ n >= 1
  /\ \A k \in 1..n : IsOptionLine(body[k]) /\ OptionRank(body[k]) # 0
  /\ \A k \in 1..(n - 1) : OptionRank(body[k]) < OptionRank(body[k + 1])
  /\ IsModeMarker(body[n])
  /\ \A k \in (n + 1)..Len(body) : IsScratchLine(body[k])
  /\ Len(body) = n + opt.emergency_codes

\* a step of the option prompts that changes the record
OptionAdded ==
  pc \in { "reuse", "step", "window", "rate" } /\ secret' # secret

\* C15: in the record handed to the writer the option lines stand between the
\* secret line and the scratch codes in the order RATE_LIMIT, WINDOW_SIZE,
\* STEP_SIZE, DISALLOW_REUSE, mode marker, the mode marker directly before
\* the first scratch code or the end of the record; every option added goes
\* in front of the options added before it.
C15_OptionsNewestFirst ==
  /\ [](HandedToWriter =>
          \A body \in { Body } : OptionsInOrder(body, Len(SelectSeq(body, IsOptionLine))))
  /\ [][ OptionAdded =>
           \A old \in { BodyOf(CStr(secret)) } : \A new \in { BodyOf(CStr(secret')) } :
             /\ Len(new) = Len(old) + 1
             /\ Tail(new) = old
             /\ OptionRank(new[1]) \in 1..4
             /\ OptionRank(new[1]) < OptionRank(old[1]) ]_vars

\* all four directives in front of the time-based marker, the first of ten
\* scratch codes behind it
C15_Witness ==
  /\ pc = "write"
  /\ Len(Body) = 15
  /\ OptionRank(Body[1]) = 1
  /\ OptionRank(Body[2]) = 2
  /\ OptionRank(Body[3]) = 3
  /\ OptionRank(Body[4]) = 4
  /\ Body[5] = totp
  /\ IsScratchLine(Body[6])

-----------------------------------------------------------------------------
(* C16 *)

Has(cl, name) == \E k \in 1..Len(cl) : cl[k].kind = "option" /\ cl[k].name = name

Count(cl, names) ==
  Cardinality({ k \in 1..Len(cl) : cl[k].kind = "option" /\ cl[k].name \in names })

\* the ranges of the numeric arguments
NumericRange ==
  [r |-> << 1, 10 >>, R |-> << 15, 600 >>, S |-> << 1, 60 >>, w |-> << 1, 21 >>,
   e |-> << 0, 10 >>]

OutOfRange(token) ==
  /\ token.kind = "option"
  /\ token.name \in DOMAIN NumericRange
  /\ \A l \in { strtol(token.arg) } :
       \/ l.consumed = 0
       \/ l.rest # << >>
       \/ l.value < NumericRange[token.name][1]
       \/ l.value > NumericRange[token.name][2]

StrayArgument(cl) == \E k \in 1..Len(cl) : cl[k].kind = "word"

\* the misuses of the command line, but for the stray argument
MisusedOptions(cl) ==
  \/ \E k \in 1..Len(cl) : cl[k].kind = "unknown"
  \/ Count(cl, { "c", "t" }) > 1
  \/ Count(cl, { "d", "D" }) > 1
  \/ Has(cl, "u") /\ (Has(cl, "r") \/ Has(cl, "R"))
  \/ \E k \in 1..Len(cl) : OutOfRange(cl[k])
  \/ (Has(cl, "d") \/ Has(cl, "D")) /\ ~Has(cl, "t")
  \/ Has(cl, "r") # Has(cl, "R")

Misuse(cl) == MisusedOptions(cl) \/ StrayArgument(cl)

\* the process is over with a status other than 0, the randomness source was
\* never opened and no file was touched
RefusedEarly ==
  /\ pc \in { "getopt", "arguments", "exit" }
  /\ pc = "exit" => status # 0
  /\ urandom = "unopened"
  /\ tmp_file = NoFile
  /\ target_file = target_before

\* C16: a command line with an unknown option, duplicate or mutually
\* exclusive options, an out-of-range number, -d/-D without -t, one of -r/-R
\* alone or a stray argument ends the process with a status other than 0,
\* before the randomness source is opened and with no file written.
C16_MisuseExitsNonZero == Misuse(argv) => RefusedEarly

-----------------------------------------------------------------------------
(* C17 *)

FilesUntouched == tmp_file = NoFile /\ target_file = target_before

\* the prompts in their order: each position is entered from the one before
PromptOrder ==
  /\ pc' \in { "reuse", "step", "window", "rate", "create" } \ { pc } =>
       CASE pc' = "reuse"  -> pc = "update" /\ use_totp # 0
         [] pc' = "step"   -> pc = "reuse"
         [] pc' = "window" -> pc = "step" \/ (pc = "update" /\ use_totp = 0)
         [] pc' = "rate"   -> pc = "window"
         [] pc' = "create" -> pc = "rate"
  /\ (pc = "update" /\ pc' = "exit") =>
       /\ opt.force = 0
       /\ exit_at' \in { "declined", "maybe" }

\* C17: no file, temporary or final, is touched before the update prompt is
\* passed and the option prompts behind it are done; a declined update ends
\* the process with status 0 and nothing written; from the open() of the
\* temporary file on the record does not change, what the file holds is the
\* record or a leading part of it, and the renamed file holds all of it.
C17_NoFileBeforeConsent ==
  /\ [](/\ pc \notin { "write", "rename", "exit" } => FilesUntouched
        /\ (pc = "exit" /\ exit_at \notin { "done", "Failed to write new secret" }) =>
             FilesUntouched
        /\ (pc = "exit" /\ exit_at = "declined") => (status = 0 /\ opt.force = 0)
        /\ tmp_file.exists => \A rec \in { Record } : IsPrefix(tmp_file.data, rec)
        /\ (pc = "exit" /\ exit_at = "done") =>
             (status = 0 /\ target_file = [exists |-> TRUE, data |-> Record]))
  /\ [][ /\ PromptOrder
         /\ pc \in { "create", "write", "rename" } => secret' = secret ]_vars

\* asked, answered yes, and the whole record with an option taken at a prompt
\* has replaced the record of an earlier run
C17_Witness ==
  /\ pc = "exit"
  /\ exit_at = "done"
  /\ opt.force = 0
  /\ target_before = OldRecord
  /\ target_file.data = Record
  /\ \E k \in 1..Len(Body) : Body[k] = ratelimit

====
